---- MODULE Spec2Model ----
(***************************************************************************)
(* Model of src/content/peerconnection/endtoend-encryption/js/worker.js:   *)
(* the worker that encrypts outgoing and decrypts incoming encoded frames  *)
(* of a WebRTC PeerConnection with AES-GCM (Insertable Streams).           *)
(*                                                                         *)
(* Bytes are symbolic: a plain byte carries its value, a ciphertext byte   *)
(* carries the key, the nonce, its position and the plaintext byte it      *)
(* encrypts, a tag byte carries the key, the nonce and the whole plaintext *)
(* it authenticates.  AES-GCM decryption succeeds exactly when the         *)
(* ciphertext and the tag were produced under the same key and nonce.      *)
(***************************************************************************)
EXTENDS Integers, Sequences, FiniteSets, TLC

\* ------------------------------------------------------------------ bounds
MaxInputs == 3      \* setCryptoKey messages and frames the worker is given
MaxKeyMsgs == 2     \* setCryptoKey messages among them
NumNonces == 2      \* distinct values getRandomValues can return
ShortLen == 2       \* a payload shorter than every video clear header
LongLen == 11       \* a payload longer than every clear header

\* ------------------------------------------------- constants of the program
IvLen == 12         \* new Uint8Array(12), byteLength - 12
TagLen == 16        \* AES-GCM default tag length (128 bits)
KeyOffset == 10     \* frameTypeToCryptoOffset.key
DeltaOffset == 3    \* frameTypeToCryptoOffset.delta
AudioOffset == 1    \* frameTypeToCryptoOffset.undefined

VARIABLES
  currentCryptoKey,     \* <<>> while undefined, else the CryptoKey <<"gen", n>>
  useCryptoOffset,      \* BOOLEAN
  currentKeyIdentifier, \* Nat
  scount,               \* calls of encodeFunction
  rcount,               \* calls of decodeFunction
  keyGen,               \* pending generateKey promises (ids of the keys to come)
  keyMsgs,              \* setCryptoKey messages handled so far
  installed,            \* assignments of currentCryptoKey performed so far
  consoleErrors,        \* what console.error has logged: the failures reported
  stream,               \* per direction: "none", "open", "closed", "errored"
  ops,                  \* per direction: one record per call of the transform
  out,                  \* per direction: frames enqueued downstream, in order
  feed,                 \* type and payload length of the frames the encoder produces
  budget                \* messages and frames the worker is given in this behaviour

vars == <<currentCryptoKey, useCryptoOffset, currentKeyIdentifier, scount, rcount,
          keyGen, keyMsgs, installed, consoleErrors, stream, ops, out,
          feed, budget>>

Dirs == {"encode", "decode"}

\* encodedFrame.type: "undefined" stands for an audio frame (type not set),
\* "empty" is the third RTCEncodedVideoFrameType
FrameTypes == {"key", "delta", "undefined", "empty"}

\* -------------------------------------------------------------------- bytes
Plain(v) == [t |-> "p", v |-> v]

CtByte(key, iv, i, b) == [t |-> "c", k |-> key, iv |-> iv, i |-> i, b |-> b]

TagByte(key, iv, j, pt) == [t |-> "g", k |-> key, iv |-> iv, i |-> j, pt |-> pt]

\* a byte with one bit flipped in transit
Flip(b) == IF b.t = "p" THEN Plain((b.v + 128) % 256) ELSE [t |-> "x", b |-> b]

Payload(n) == [i \in 1..n |-> Plain(i)]

PayloadLens == {ShortLen, LongLen}

\* self.crypto.getRandomValues(new Uint8Array(12))
Nonce(r) == [j \in 1..IvLen |-> Plain(200 + r)]

\* ---------------------------------------------------- ArrayBuffer.slice
\* an optional integer is <<>> (undefined) or <<n>>
ToInteger(x) == IF x = <<>> THEN 0 ELSE x[1]

Max(a, b) == IF a > b THEN a ELSE b

Min(a, b) == IF a < b THEN a ELSE b

Clamp(rel, len) == IF rel < 0 THEN Max(len + rel, 0) ELSE Min(rel, len)

\* buf.slice(begin, end) with begin, end optional integers
Slice(buf, begin, end) ==
  LET len == Len(buf)
      first == Clamp(ToInteger(begin), len)
      final == IF end = <<>> THEN len ELSE Clamp(end[1], len)
      newLen == Max(final - first, 0)
  IN  [i \in 1..newLen |-> buf[first + i]]

\* const frameTypeToCryptoOffset = {key: 10, delta: 3, undefined: 1}
frameTypeToCryptoOffset(type) ==
  CASE type = "key" -> <<KeyOffset>>
    [] type = "delta" -> <<DeltaOffset>>
    [] type = "undefined" -> <<AudioOffset>>
    [] OTHER -> <<>>

\* useCryptoOffset ? frameTypeToCryptoOffset[encodedFrame.type] : 0
cryptoOffset(flag, type) == IF flag THEN frameTypeToCryptoOffset(type) ELSE <<0>>

\* ------------------------------------------------------------------ AES-GCM
GcmEncrypt(key, iv, pt) ==
  [i \in 1..Len(pt) |-> CtByte(key, iv, i, pt[i])]
    \o [j \in 1..TagLen |-> TagByte(key, iv, j, pt)]

\* the plaintext a ciphertext decrypts to; a byte that was not produced under
\* this key, nonce and position decrypts to a byte that is not the plaintext
GcmPlain(key, iv, ct) ==
  [i \in 1..Len(ct) |->
     IF ct[i].t = "c" /\ ct[i].k = key /\ ct[i].iv = iv /\ ct[i].i = i
     THEN ct[i].b ELSE Flip(ct[i])]

GcmDecrypt(key, iv, data) ==
  IF Len(data) < TagLen
  THEN [ok |-> FALSE, pt |-> <<>>]
  ELSE LET n == Len(data) - TagLen
           ct == SubSeq(data, 1, n)
           pt == GcmPlain(key, iv, ct)
       IN  IF GcmEncrypt(key, iv, pt) = data
           THEN [ok |-> TRUE, pt |-> pt]
           ELSE [ok |-> FALSE, pt |-> <<>>]

\* --------------------------------------------------------- frames and calls
Frame(type, ts, data) ==
  [type |-> type, timestamp |-> ts, synchronizationSource |-> 1, data |-> data]

Feeds == [type : FrameTypes, len : PayloadLens]

\* the frame the media encoder produces
RawFrame(ts) == Frame(feed.type, ts, Payload(feed.len))

\* mutant of WithData: the frame enqueued is a new frame, without the timestamp
WithDataStamped(frame, data) == [frame EXCEPT !.data = data, !.timestamp = 0]

WithData(frame, data) == [frame EXCEPT !.data = data]

\* mutant of EncodeResult: the key is read again when the operation completes
EncodeResultCurrentKey(op) ==
  op.dataHeader \o GcmEncrypt(currentCryptoKey, op.iv, op.dataIn) \o op.iv

\* the envelope assembled in the callback of encrypt
EncodeResult(op) == op.dataHeader \o GcmEncrypt(op.key, op.iv, op.dataIn) \o op.iv

\* the payload assembled in the callback of decrypt
DecodeResult(op) == op.dataHeader \o GcmDecrypt(op.key, op.iv, op.dataIn).pt

NoOp(frame) ==
  [frame |-> frame, status |-> "enqueued", key |-> <<>>, offset |-> <<0>>,
   dataHeader |-> <<>>, dataIn |-> <<>>, iv |-> <<>>, outPos |-> 0]

\* the worker as loaded, before any message
Loaded ==
  /\ currentCryptoKey = <<>>
  /\ useCryptoOffset = TRUE
  /\ currentKeyIdentifier = 0
  /\ scount = 0
  /\ rcount = 0
  /\ keyGen = {}
  /\ keyMsgs = 0
  /\ installed = 0
  /\ consoleErrors = {}
  /\ stream = [d \in Dirs |-> "none"]
  /\ ops = [d \in Dirs |-> <<>>]
  /\ out = [d \in Dirs |-> <<>>]
  /\ feed \in Feeds

Init == Loaded /\ budget = MaxInputs

\* one more input, to reach a second setCryptoKey message between the encoding
\* and the decoding of a frame
InitLong == Loaded /\ budget = MaxInputs + 1


\* --------------------------------------------------------------- onmessage
\* operation 'encode' / 'decode': readableStream.pipeThrough(new TransformStream(
\* {transform: ...})).pipeTo(writableStream)
OnMessagePipe(d) ==
  /\ stream[d] = "none"
  /\ stream' = [stream EXCEPT ![d] = "open"]
  /\ UNCHANGED <<currentCryptoKey, useCryptoOffset, currentKeyIdentifier, scount, rcount,
                 keyGen, keyMsgs, installed, consoleErrors, ops, out, feed, budget>>

\* the piped readableStream ends: the transform has returned for every chunk
\* written, so the pipe closes the transform stream and its readable side
UpstreamClose(d) ==
  /\ stream[d] = "open"
  /\ stream' = [stream EXCEPT ![d] = "closed"]
  /\ UNCHANGED <<currentCryptoKey, useCryptoOffset, currentKeyIdentifier, scount, rcount,
                 keyGen, keyMsgs, installed, consoleErrors, ops, out, feed, budget>>

\* messages and frames handled so far
Inputs == keyMsgs + scount + rcount

\* event.data.currentCryptoKey: undefined or key material
MsgKeys == {<<>>, <<"msg", 1>>}

\* event.data.currentCryptoKey !== currentCryptoKey: key material is never the
\* CryptoKey object, so the two are identical only when both are undefined
StrictNotEqual(msgKey, key) == ~(msgKey = <<>> /\ key = <<>>)

\* operation 'setCryptoKey'; make_video_key() starts generateKey
SetCryptoKey(msgKey, flag) ==
  /\ Inputs < budget
  /\ keyMsgs < MaxKeyMsgs
  /\ currentKeyIdentifier' =
       IF StrictNotEqual(msgKey, currentCryptoKey)
       THEN currentKeyIdentifier + 1 ELSE currentKeyIdentifier
  /\ keyMsgs' = keyMsgs + 1
  /\ keyGen' = keyGen \cup {keyMsgs + 1}
  /\ useCryptoOffset' = flag
  /\ UNCHANGED <<currentCryptoKey, scount, rcount, installed, consoleErrors,
                 stream, ops, out, feed, budget>>

\* generateKey resolves: resolve(k), then function(k) {currentCryptoKey = k}
KeyGenResolve(n) ==
  /\ n \in keyGen
  /\ keyGen' = keyGen \ {n}
  /\ currentCryptoKey' = <<"gen", n>>
  /\ installed' = installed + 1
  /\ UNCHANGED <<useCryptoOffset, currentKeyIdentifier, scount, rcount, keyMsgs,
                 consoleErrors, stream, ops, out, feed, budget>>

\* mutant of KeyGenReject: the failed generation settles make_video_key with
\* undefined, which the caller assigns
KeyGenRejectUnset(n) ==
  /\ n \in keyGen
  /\ keyGen' = keyGen \ {n}
  /\ consoleErrors' = consoleErrors \cup {<<"generateKey", n>>}
  /\ currentCryptoKey' = <<>>
  /\ UNCHANGED <<useCryptoOffset, currentKeyIdentifier, scount, rcount,
                 keyMsgs, installed, stream, ops, out, feed, budget>>

\* generateKey rejects: console.error(err); the promise of make_video_key
\* never settles
KeyGenReject(n) ==
  /\ n \in keyGen
  /\ keyGen' = keyGen \ {n}
  /\ consoleErrors' = consoleErrors \cup {<<"generateKey", n>>}
  /\ UNCHANGED <<currentCryptoKey, useCryptoOffset, currentKeyIdentifier, scount, rcount,
                 keyMsgs, installed, stream, ops, out, feed, budget>>

\* ---------------------------------------------------------- encodeFunction
\* controller.enqueue(encodedFrame) on an open stream
Enqueue(d, i, frame) ==
  /\ out' = [out EXCEPT ![d] = Append(@, frame)]
  /\ ops' = [ops EXCEPT ![d][i].status = "enqueued", ![d][i].outPos = Len(out[d]) + 1]

\* mutant of PassThrough: the frame is not forwarded
PassThroughDrop(d, frame) ==
  /\ out' = out
  /\ ops' = [ops EXCEPT ![d] = Append(@, [NoOp(frame) EXCEPT !.status = "rejected"])]

PassThrough(d, frame) ==
  /\ out' = [out EXCEPT ![d] = Append(@, frame)]
  /\ ops' = [ops EXCEPT ![d] = Append(@, [NoOp(frame) EXCEPT !.outPos = Len(out[d]) + 1])]

\* mutant of EncodeOp: the header kept in clear is one byte too long
EncodeOpLeak(frame, iv) ==
  LET off == cryptoOffset(useCryptoOffset, frame.type)
  IN  [frame |-> frame, status |-> "pending", key |-> currentCryptoKey, offset |-> off,
       dataHeader |-> Slice(frame.data, <<0>>, <<ToInteger(off) + 1>>),
       dataIn |-> Slice(frame.data, off, <<>>),
       iv |-> iv, outPos |-> 0]

EncodeOp(frame, iv) ==
  LET off == cryptoOffset(useCryptoOffset, frame.type)
  IN  [frame |-> frame, status |-> "pending", key |-> currentCryptoKey, offset |-> off,
       dataHeader |-> Slice(frame.data, <<0>>, off),
       dataIn |-> Slice(frame.data, off, <<>>),
       iv |-> iv, outPos |-> 0]

encodeFunction(frame, iv) ==
  /\ stream["encode"] = "open"
  /\ Inputs < budget
  /\ scount' = scount + 1
  /\ IF currentCryptoKey # <<>>
     THEN /\ ops' = [ops EXCEPT !["encode"] = Append(@, EncodeOp(frame, iv))]
          /\ out' = out
     ELSE PassThrough("encode", frame)
  /\ UNCHANGED <<currentCryptoKey, useCryptoOffset, currentKeyIdentifier, rcount,
                 keyGen, keyMsgs, installed, consoleErrors, stream, feed, budget>>

\* the callback given to then(): runs when the promise of the cipher resolves;
\* enqueue throws once the readable side is closed
Settle(d, i, data) ==
  /\ IF stream[d] = "open"
     THEN Enqueue(d, i, WithData(ops[d][i].frame, data))
     ELSE /\ ops' = [ops EXCEPT ![d][i].status = "lost"]
          /\ out' = out
  /\ UNCHANGED <<stream, consoleErrors>>

\* mutant of Reject: a handler forwards the frame as it was submitted
RejectForward(d, i) ==
  /\ Enqueue(d, i, ops[d][i].frame)
  /\ UNCHANGED <<stream, consoleErrors>>

\* mutant of Reject: the rejection reaches the stream (the transform returns
\* the promise), which errors it
RejectAbort(d, i) ==
  /\ ops' = [ops EXCEPT ![d][i].status = "rejected"]
  /\ out' = out
  /\ stream' = [stream EXCEPT ![d] = "errored"]
  /\ UNCHANGED consoleErrors

\* the promise of the cipher rejects: no handler is attached
Reject(d, i) ==
  /\ ops' = [ops EXCEPT ![d][i].status = "rejected"]
  /\ out' = out
  /\ UNCHANGED <<stream, consoleErrors>>

EncryptResolve(i) ==
  /\ i \in DOMAIN ops["encode"]
  /\ ops["encode"][i].status = "pending"
  /\ Settle("encode", i, EncodeResult(ops["encode"][i]))
  /\ UNCHANGED <<currentCryptoKey, useCryptoOffset, currentKeyIdentifier, scount, rcount,
                 keyGen, keyMsgs, installed, feed, budget>>

EncryptReject(i) ==
  /\ i \in DOMAIN ops["encode"]
  /\ ops["encode"][i].status = "pending"
  /\ Reject("encode", i)
  /\ UNCHANGED <<currentCryptoKey, useCryptoOffset, currentKeyIdentifier, scount, rcount,
                 keyGen, keyMsgs, installed, feed, budget>>

\* ---------------------------------------------------------- decodeFunction
DecodeOp(frame) ==
  LET off == cryptoOffset(useCryptoOffset, frame.type)
      len == Len(frame.data)
  IN  [frame |-> frame, status |-> "pending", key |-> currentCryptoKey, offset |-> off,
       dataHeader |-> Slice(frame.data, <<0>>, off),
       dataIn |-> Slice(frame.data, off, <<len - IvLen>>),
       iv |-> Slice(frame.data, <<len - IvLen>>, <<>>), outPos |-> 0]

\* (the DataView and the checksum of lines 91-92 are read and never used;
\* getUint32 is only called on a buffer of more than 4 bytes and cannot throw)
decodeFunction(frame) ==
  /\ stream["decode"] = "open"
  /\ Inputs < budget
  /\ rcount' = rcount + 1
  /\ IF currentCryptoKey # <<>>
     THEN /\ ops' = [ops EXCEPT !["decode"] = Append(@, DecodeOp(frame))]
          /\ out' = out
     ELSE PassThrough("decode", frame)
  /\ UNCHANGED <<currentCryptoKey, useCryptoOffset, currentKeyIdentifier, scount,
                 keyGen, keyMsgs, installed, consoleErrors, stream, feed, budget>>

DecryptOk(op) == GcmDecrypt(op.key, op.iv, op.dataIn).ok

DecryptResolve(i) ==
  /\ i \in DOMAIN ops["decode"]
  /\ ops["decode"][i].status = "pending"
  /\ DecryptOk(ops["decode"][i])
  /\ Settle("decode", i, DecodeResult(ops["decode"][i]))
  /\ UNCHANGED <<currentCryptoKey, useCryptoOffset, currentKeyIdentifier, scount, rcount,
                 keyGen, keyMsgs, installed, feed, budget>>

DecryptReject(i) ==
  /\ i \in DOMAIN ops["decode"]
  /\ ops["decode"][i].status = "pending"
  /\ ~DecryptOk(ops["decode"][i])
  /\ Reject("decode", i)
  /\ UNCHANGED <<currentCryptoKey, useCryptoOffset, currentKeyIdentifier, scount, rcount,
                 keyGen, keyMsgs, installed, feed, budget>>

\* ------------------------------------------------------------------ inputs
\* a frame that reaches the receiver with one byte changed in transit: its
\* first byte or the last byte before the nonce
TamperPos(data) == {p \in {1, Len(data) - IvLen} : p >= 1}

Tampered(frame) ==
  {WithData(frame, [frame.data EXCEPT ![p] = Flip(@)]) : p \in TamperPos(frame.data)}

Sent == {out["encode"][i] : i \in DOMAIN out["encode"]}

\* what the receiving side is given: a frame the sending side emitted, such a
\* frame changed in transit, or a frame of a sender that does not encrypt
Received == Sent \cup UNION {Tampered(f) : f \in Sent} \cup {RawFrame(rcount + 1)}

\* getRandomValues returns a value it returned before or a new one
UsedNonces ==
  {ops["encode"][i].iv : i \in {j \in DOMAIN ops["encode"] : ops["encode"][j].iv # <<>>}}

RandomValues ==
  UsedNonces \cup {Nonce(r) : r \in {Cardinality(UsedNonces) + 1} \cap (1..NumNonces)}

Next ==
  \/ \E d \in Dirs : OnMessagePipe(d)
  \/ \E d \in Dirs : UpstreamClose(d)
  \/ \E m \in MsgKeys, flag \in BOOLEAN : SetCryptoKey(m, flag)
  \/ \E n \in 1..MaxKeyMsgs : KeyGenResolve(n)
  \/ \E n \in 1..MaxKeyMsgs : KeyGenReject(n)
  \/ \E iv \in RandomValues : encodeFunction(RawFrame(scount + 1), iv)
  \/ \E i \in 1..(MaxInputs + 1) : EncryptResolve(i)
  \/ \E i \in 1..(MaxInputs + 1) : EncryptReject(i)
  \/ \E f \in Received : decodeFunction(f)
  \/ \E i \in 1..(MaxInputs + 1) : DecryptResolve(i)
  \/ \E i \in 1..(MaxInputs + 1) : DecryptReject(i)

Spec == Init /\ [][Next]_vars

SpecLong == InitLong /\ [][Next]_vars


\* ================================================================== claims
Calls(d) == DOMAIN ops[d]

Enqueued(d, i) == ops[d][i].status = "enqueued"

Emitted(d, i) == out[d][ops[d][i].outPos]

\* the call ran the cipher (a key was installed when the frame was submitted)
Ciphered(d, i) == ops[d][i].key # <<>>

\* C1: in each direction frames are enqueued downstream in the order they
\* were submitted, whatever the order in which the cipher operations complete
OrderPreserved ==
  \A d \in Dirs : \A i, j \in Calls(d) :
    (i < j /\ Enqueued(d, i) /\ Enqueued(d, j)) => ops[d][i].outPos < ops[d][j].outPos

\* the decode call j was given the envelope the encode call i emitted, and ran
\* with the same key and the same clear-header setting
RoundTripPair(i, j) ==
  /\ Ciphered("encode", i)
  /\ Enqueued("encode", i)
  /\ ops["decode"][j].frame = Emitted("encode", i)
  /\ ops["decode"][j].key = ops["encode"][i].key
  /\ ops["decode"][j].offset = ops["encode"][i].offset

\* C2: decoding the envelope of a payload P with the same key and the same
\* clear-header setting yields exactly P, for every payload length and type
RoundTrip ==
  \A i \in Calls("encode"), j \in Calls("decode") :
    RoundTripPair(i, j) =>
      /\ ops["decode"][j].status # "rejected"
      /\ Enqueued("decode", j) => Emitted("decode", j) = ops["encode"][i].frame

\* C3: while no key has been installed every frame submitted to either
\* transform is enqueued downstream unchanged and the stream does not fail
PassthroughUnchanged ==
  installed = 0 =>
    \A d \in Dirs :
      /\ stream[d] # "errored"
      /\ Len(out[d]) = Len(ops[d])
      /\ \A i \in Calls(d) : Enqueued(d, i) /\ out[d][i] = ops[d][i].frame

PassthroughWitness ==
  /\ installed = 0
  /\ keyGen # {}
  /\ scount > 0 /\ rcount > 0
  /\ Len(out["encode"]) = scount /\ Len(out["decode"]) = rcount

\* C4: every failed encrypt or decrypt is reported (console.error is the only
\* report the worker makes) or propagated to the submitter of the frame (the
\* write of the frame fails, which errors the stream)
FailuresSurfaced ==
  \A d \in Dirs : \A i \in Calls(d) :
    ops[d][i].status = "rejected" => (<<d, i>> \in consoleErrors \/ stream[d] = "errored")

\* C5: with a key installed, a frame whose decrypt fails is never enqueued
\* downstream, neither decrypted nor as it was received
DropOnAuthFailure ==
  /\ \A i \in Calls("decode") :
       (Ciphered("decode", i) /\ ~DecryptOk(ops["decode"][i])) =>
         /\ ops["decode"][i].status \in {"pending", "rejected"}
         /\ ops["decode"][i].outPos = 0
  /\ \A p \in DOMAIN out["decode"] :
       \E i \in Calls("decode") :
         /\ ops["decode"][i].outPos = p
         /\ Ciphered("decode", i) => DecryptOk(ops["decode"][i])

\* the envelope is long enough to hold the clear header and the nonce
WellFormed(op) == Len(op.frame.data) >= ToInteger(op.offset) + IvLen

DropOnAuthFailureWitness ==
  \E i \in Calls("decode") :
    /\ Ciphered("decode", i)
    /\ WellFormed(ops["decode"][i])
    /\ Len(ops["decode"][i].dataIn) >= TagLen
    /\ ops["decode"][i].status = "rejected"
    /\ out["decode"] = <<>>

\* C6: a failed encrypt or decrypt never aborts the stream: the stream is not
\* errored and every frame submitted after the failing one is processed as
\* usual (enqueued with the result of its own cipher operation, unless its own
\* operation fails or the stream has been closed meanwhile)
FailureIsolation ==
  \A d \in Dirs : \A i \in Calls(d) :
    ops[d][i].status = "rejected" =>
      /\ stream[d] \in {"open", "closed"}
      /\ \A j \in Calls(d) :
           j > i =>
             /\ ops[d][j].status = "lost" => stream[d] = "closed"
             /\ (Enqueued(d, j) /\ d = "encode") =>
                  Emitted(d, j) = WithData(ops[d][j].frame, EncodeResult(ops[d][j]))
             /\ (Enqueued(d, j) /\ d = "decode") =>
                  /\ DecryptOk(ops[d][j])
                  /\ Emitted(d, j) = WithData(ops[d][j].frame, DecodeResult(ops[d][j]))

FailureIsolationWitness ==
  \E d \in Dirs : \E i, j \in Calls(d) :
    /\ i < j
    /\ ops[d][i].status = "rejected"
    /\ Enqueued(d, j)
    /\ stream[d] = "open"

\* C7: with a key installed, an envelope shorter than header length + 12 is
\* refused as malformed before any decryption is attempted: it is dropped and
\* reported, and is never handed to decrypt
MalformedRefused ==
  \A i \in Calls("decode") :
    (Ciphered("decode", i) /\ ~WellFormed(ops["decode"][i])) =>
      /\ ops["decode"][i].status = "rejected"
      /\ <<"decode", i>> \in consoleErrors

\* C8: once a setCryptoKey message has been handled the active key is the key
\* material the message carried
InstallKeyImmediate ==
  [][\A m \in MsgKeys, flag \in BOOLEAN :
       SetCryptoKey(m, flag) => currentCryptoKey' = m]_vars

\* C9: the epoch identifier equals the number of keys that have been installed
\* as the active key
EpochCountsInstalls == currentKeyIdentifier = installed

\* C10: once currentCryptoKey is set it is never unset, and with it set no
\* frame is enqueued downstream as it was submitted
NoReturnToPassthrough ==
  [][currentCryptoKey # <<>> =>
       /\ currentCryptoKey' # <<>>
       /\ \A d \in Dirs : \A i \in DOMAIN ops'[d] :
            (/\ ops'[d][i].status = "enqueued"
             /\ (i \in Calls(d) => ~Enqueued(d, i))) =>
              /\ Ciphered(d, i)'
              /\ out'[d][Len(out'[d])].data # ops'[d][i].frame.data]_vars

NoReturnToPassthroughWitness ==
  /\ currentCryptoKey = <<"gen", 1>>
  /\ <<"generateKey", 2>> \in consoleErrors
  /\ keyGen = {}
  /\ \E d \in Dirs : \E i \in Calls(d) : Ciphered(d, i) /\ Enqueued(d, i)


\* C11: the clear-header length is defined for every classification: 10 for
\* "key", 3 for "delta", 1 for audio, 0 when the flag is off, and a defined
\* non-negative number of bytes for any other classification
ClearHeaderTotal ==
  \A d \in Dirs : \A i \in Calls(d) :
    Ciphered(d, i) =>
      LET off == ops[d][i].offset
          type == ops[d][i].frame.type
      IN  /\ off # <<>>
          /\ off[1] >= 0
          /\ off[1] # 0 =>
               /\ type = "key" => off[1] = 10
               /\ type = "delta" => off[1] = 3
               /\ type = "undefined" => off[1] = 1

\* C12: with the clear-header flag on, the envelope of a "key" frame starts
\* with the first 10 bytes of the payload (3 for "delta", 1 for audio; the
\* whole payload when it is shorter), and every byte between that header and
\* the nonce is ciphertext or tag, never a byte of the payload
HeaderExposure ==
  \A i \in Calls("encode") :
    (/\ Ciphered("encode", i)
     /\ Enqueued("encode", i)
     /\ ops["encode"][i].offset \notin {<<>>, <<0>>}) =>
      LET P == ops["encode"][i].frame.data
          env == Emitted("encode", i).data
          type == ops["encode"][i].frame.type
          n == CASE type = "key" -> 10 [] type = "delta" -> 3 [] OTHER -> 1
          h == Min(n, Len(P))
      IN  /\ type \in {"key", "delta", "undefined"}
          /\ SubSeq(env, 1, h) = SubSeq(P, 1, h)
          /\ \A p \in (h + 1)..(Len(env) - IvLen) :
               /\ env[p].t \in {"c", "g"}
               /\ \A q \in DOMAIN P : env[p] # P[q]

HeaderExposureWitness ==
  \E i \in Calls("encode") :
    /\ Ciphered("encode", i)
    /\ Enqueued("encode", i)
    /\ ops["encode"][i].frame.type = "key"
    /\ ops["encode"][i].offset = <<10>>
    /\ Len(ops["encode"][i].frame.data) > 10

\* C13: when the encrypt of a frame fails the frame is not enqueued in
\* plaintext and the failure is propagated to the caller of that call (the
\* write of the frame fails, which errors the stream)
EncryptFailurePropagated ==
  \A i \in Calls("encode") :
    ops["encode"][i].status = "rejected" =>
      /\ ops["encode"][i].outPos = 0
      /\ \A p \in DOMAIN out["encode"] : out["encode"][p] # ops["encode"][i].frame
      /\ stream["encode"] = "errored"

\* C14: no two encryptions under the same key use the same nonce
NonceUnique ==
  \A i, j \in Calls("encode") :
    (/\ i # j
     /\ Ciphered("encode", i)
     /\ ops["encode"][i].key = ops["encode"][j].key) =>
      ops["encode"][i].iv # ops["encode"][j].iv

\* C15: the key and the clear-header length of a call are those in force when
\* the transform was called for the frame: they are fixed at the call, no later
\* step changes them, and the frame enqueued is computed from them
KeyReadOnce ==
  [][\A d \in Dirs : \A i \in DOMAIN ops'[d] :
       /\ i \notin Calls(d) =>
            /\ ops'[d][i].key = currentCryptoKey
            /\ Ciphered(d, i)' =>
                 ops'[d][i].offset = cryptoOffset(useCryptoOffset, ops'[d][i].frame.type)
       /\ i \in Calls(d) =>
            /\ ops'[d][i].key = ops[d][i].key
            /\ ops'[d][i].offset = ops[d][i].offset
            /\ ops'[d][i].dataHeader = ops[d][i].dataHeader
            /\ ops'[d][i].dataIn = ops[d][i].dataIn
            /\ ops'[d][i].iv = ops[d][i].iv
            /\ (ops[d][i].status = "pending" /\ Enqueued(d, i)') =>
                 out'[d][Len(out'[d])].data =
                   IF d = "encode"
                   THEN ops[d][i].dataHeader
                          \o GcmEncrypt(ops[d][i].key, ops[d][i].iv, ops[d][i].dataIn)
                          \o ops[d][i].iv
                   ELSE ops[d][i].dataHeader
                          \o GcmDecrypt(ops[d][i].key, ops[d][i].iv, ops[d][i].dataIn).pt]_vars

\* a frame was enqueued although the key and the flag changed after its call
KeyReadOnceWitness ==
  \E i \in Calls("encode") :
    /\ Ciphered("encode", i)
    /\ Enqueued("encode", i)
    /\ ops["encode"][i].key # currentCryptoKey
    /\ ops["encode"][i].offset # cryptoOffset(useCryptoOffset, ops["encode"][i].frame.type)
    /\ Emitted("encode", i).data[Len(ops["encode"][i].dataHeader) + 1].k = ops["encode"][i].key

\* C16: in each direction at most one frame is in flight in the transform
OneInFlight ==
  \A d \in Dirs : Cardinality({i \in Calls(d) : ops[d][i].status = "pending"}) <= 1

\* the decode call j was given the envelope the encode call i emitted
Relayed(i, j) ==
  /\ Ciphered("encode", i)
  /\ Enqueued("encode", i)
  /\ Ciphered("decode", j)
  /\ ops["decode"][j].frame = Emitted("encode", i)

\* C17: a frame encoded and later decoded by the worker is split at the same
\* clear-header length by both transforms
HeaderLengthAgreement ==
  \A i \in Calls("encode"), j \in Calls("decode") :
    Relayed(i, j) => ops["decode"][j].offset = ops["encode"][i].offset

\* C18: an envelope is payload length + 28 bytes long: the clear header, the
\* ciphertext of body length + 16 bytes, the nonce as the last 12 bytes; decode
\* takes the nonce from the last 12 bytes and the ciphertext from the bytes
\* between the clear header and the nonce
EnvelopeLayout ==
  /\ \A i \in Calls("encode") :
       (Ciphered("encode", i) /\ Enqueued("encode", i)) =>
         LET P == ops["encode"][i].frame.data
             env == Emitted("encode", i).data
             h == Len(ops["encode"][i].dataHeader)
         IN  /\ Len(env) = Len(P) + 28
             /\ SubSeq(env, 1, h) = SubSeq(P, 1, h)
             /\ Len(env) - h - 12 = (Len(P) - h) + 16
             /\ SubSeq(env, Len(env) - 11, Len(env)) = ops["encode"][i].iv
  /\ \A j \in Calls("decode") :
       (Ciphered("decode", j) /\ WellFormed(ops["decode"][j])) =>
         LET env == ops["decode"][j].frame.data
             h == Len(ops["decode"][j].dataHeader)
         IN  /\ ops["decode"][j].iv = SubSeq(env, Len(env) - 11, Len(env))
             /\ ops["decode"][j].dataIn = SubSeq(env, h + 1, Len(env) - 12)

\* C19: the transforms change only the data of a frame: the frame enqueued has
\* the type, the timestamp and the source of the frame submitted, and a frame
\* is enqueued at most once
FrameEffect ==
  \A d \in Dirs :
    /\ \A i \in Calls(d) :
         IF Enqueued(d, i)
         THEN /\ ops[d][i].outPos \in DOMAIN out[d]
              /\ Emitted(d, i).type = ops[d][i].frame.type
              /\ Emitted(d, i).timestamp = ops[d][i].frame.timestamp
              /\ Emitted(d, i).synchronizationSource = ops[d][i].frame.synchronizationSource
         ELSE ops[d][i].outPos = 0
    /\ \A i, j \in Calls(d) :
         (i # j /\ Enqueued(d, i) /\ Enqueued(d, j)) => ops[d][i].outPos # ops[d][j].outPos
    /\ Len(out[d]) = Cardinality({i \in Calls(d) : Enqueued(d, i)})

FrameEffectWitness ==
  \E i \in Calls("encode"), j \in Calls("decode") :
    /\ Relayed(i, j)
    /\ Enqueued("decode", j)
    /\ Emitted("encode", i).data # ops["encode"][i].frame.data
    /\ Emitted("decode", j).data # ops["decode"][j].frame.data

\* C20: a frame whose cipher operation has completed without failing has been
\* enqueued downstream, also when the operation was still pending when the
\* upstream ended
CompletedEmitted ==
  \A d \in Dirs : \A i \in Calls(d) :
    ops[d][i].status \notin {"pending", "rejected"} => Enqueued(d, i)

====
